---- MODULE Spec2Model ----
(***************************************************************************)
(* Room lifecycle of quikvote: the HTTP handlers of                        *)
(* internal/handlers/room.go, run concurrently against one shared store.   *)
(* Every handler is split at its store calls: one action per store call,   *)
(* with the handler's own checks and its response in the same step.        *)
(* The store (package database) is modelled from the RoomStore contract.   *)
(***************************************************************************)
EXTENDS Integers, Sequences, FiniteSets, TLC

\* ------------------------------------------------------------- bounds
MaxCalls == 3   \* handler invocations in one behaviour
MaxScore == 1   \* largest score of a submission

Users == {"alice", "bob", "carol"}
\* the users who create rooms; the third user only joins, adds and closes
Owners == {"alice", "bob"}
OptionNames == {"a", "b"}
CallIds == 1..MaxCalls

\* rooms: the room documents, by id; results: the Result documents, by id;
\* calls: the handler invocations, with their inputs, position and response
VARIABLES rooms, results, calls
vars == <<rooms, results, calls>>

\* the ids and codes a request may name: those of the rooms created so far
\* (id 1 before any room exists, which no lookup finds)
RoomIds == 1..(IF Len(rooms) = 0 THEN 1 ELSE Len(rooms))

\* ------------------------------------------------------------ helpers
Range(s) == {s[i] : i \in 1..Len(s)}

\* contains(s, str): linear search of a slice
contains(s, str) == \E i \in 1..Len(s) : s[i] = str

\* the nil *models.Room a lookup returns when no document matches
NoRoom == [state |-> "nil"]

\* every score submission: a map from some options to scores
ScoreMaps == UNION {[S -> 0..MaxScore] : S \in SUBSET OptionNames}

\* ---------------------------------------------------- store (database)
\* database.CreateRoom: a fresh open room whose only participant is its owner
NewRoom(id, username) ==
    [id |-> id, code |-> id, owner |-> username,
     participants |-> <<username>>, options |-> <<>>,
     votes |-> <<>>, lockedIn |-> {}, state |-> "open"]

NewRoomId(rs) == Len(rs) + 1

StoreCreateRoom(rs, username) == Append(rs, NewRoom(NewRoomId(rs), username))

\* database.GetRoomById: the room, or nil
GetRoomById(rs, id) == IF id \in 1..Len(rs) THEN rs[id] ELSE NoRoom

\* database.GetRoomByCode: the room with this code, or nil
GetRoomByCode(rs, code) ==
    IF \E i \in 1..Len(rs) : rs[i].code = code
    THEN rs[CHOOSE i \in 1..Len(rs) : rs[i].code = code]
    ELSE NoRoom

\* database.AddParticipantToRoom: append if absent, success either way
AddParticipantToRoom(rs, code, username) ==
    IF GetRoomByCode(rs, code) = NoRoom
    THEN [rooms |-> rs, success |-> FALSE]
    ELSE LET r == GetRoomByCode(rs, code).id IN
         [rooms |-> IF contains(rs[r].participants, username) THEN rs
                    ELSE [rs EXCEPT ![r].participants = Append(@, username)],
          success |-> TRUE]

\* database.AddOptionToRoom: append if absent, failure if present
AddOptionToRoom(rs, id, option) ==
    IF GetRoomById(rs, id) = NoRoom \/ contains(GetRoomById(rs, id).options, option)
    THEN [rooms |-> rs, success |-> FALSE]
    ELSE [rooms |-> [rs EXCEPT ![id].options = Append(@, option)], success |-> TRUE]

\* a close written as a flip of the state, with no condition on it
CloseRoom_Toggle(rs, id) ==
    IF GetRoomById(rs, id) = NoRoom
    THEN [rooms |-> rs, success |-> FALSE]
    ELSE [rooms |-> [rs EXCEPT ![id].state =
                        IF @ = "open" THEN "closed" ELSE "open"],
          success |-> TRUE]

\* database.CloseRoom: open -> closed, failure if not open
CloseRoom(rs, id) ==
    IF GetRoomById(rs, id) = NoRoom \/ GetRoomById(rs, id).state /= "open"
    THEN [rooms |-> rs, success |-> FALSE]
    ELSE [rooms |-> [rs EXCEPT ![id].state = "closed"], success |-> TRUE]

\* database.CreateResult: a new Result; room records which Close created it
CreateResult(res, username, sortedOptions, id) ==
    Append(res, [createdBy |-> username, ranking |-> sortedOptions, room |-> id])

\* ------------------------------------------------------------- calls
IdleCall ==
    [op |-> "none", user |-> "", room |-> 0, option |-> "", pc |-> "idle",
     snap |-> NoRoom, res |-> "", resp |-> <<>>, committed |-> FALSE]

\* slot c is free, and the slots are taken in order
CanStart(c) ==
    /\ calls[c].op = "none"
    /\ c > 1 => calls[c - 1].op /= "none"

Finish(call, res) == [call EXCEPT !.pc = "done", !.res = res, !.snap = NoRoom]

Init ==
    /\ rooms = <<>>
    /\ results = <<>>
    /\ calls = [c \in CallIds |-> IdleCall]

\* CreateRoomHandler
CreateRoomHandler(c, u, err) ==
    /\ CanStart(c)
    /\ LET call == [IdleCall EXCEPT !.op = "create", !.user = u] IN
       IF err
       THEN /\ calls' = [calls EXCEPT ![c] = Finish(call, "500 Database error")]
            /\ UNCHANGED rooms
       ELSE /\ rooms' = StoreCreateRoom(rooms, u)
            /\ calls' = [calls EXCEPT ![c] =
                 Finish([call EXCEPT !.room = NewRoomId(rooms), !.committed = TRUE],
                        "201")]
    /\ UNCHANGED results

\* the data of the page new.html: RoomUrl carries the room's id, IconUrl
\* its code; RoomCode is left empty
NewPageData(room) ==
    [RoomCode |-> "", RoomUrl |-> room.id, IconUrl |-> room.code, Room |-> room]

\* NewPageHandler (pages.go): creates a room as CreateRoomHandler does and
\* answers with the page of the new room
NewPageHandler(c, u, err) ==
    /\ CanStart(c)
    /\ LET call == [IdleCall EXCEPT !.op = "newpage", !.user = u] IN
       IF err
       THEN /\ calls' = [calls EXCEPT ![c] = Finish(call, "500 Database error")]
            /\ UNCHANGED rooms
       ELSE /\ rooms' = StoreCreateRoom(rooms, u)
            /\ calls' = [calls EXCEPT ![c] =
                 Finish([call EXCEPT !.room = NewRoomId(rooms), !.committed = TRUE,
                                     !.resp = <<NewPageData(NewRoom(NewRoomId(rooms), u))>>],
                        "200")]
    /\ UNCHANGED results

\* ---------------------------------------------------- JoinRoomHandler
\* a handler that answers 200 without looking at what the store returned
JoinResponse_Unchecked(err, success) == "200"

\* the response after database.AddParticipantToRoom
JoinResponse(err, success) ==
    IF err THEN "500 Database error"
    ELSE IF success THEN "200"
    ELSE "500 Error adding participant"

\* the response after database.GetRoomByCode, "" when the handler goes on
JoinCheck(err, room) ==
    IF err THEN "500 Database error"
    ELSE IF room = NoRoom THEN "404"
    ELSE IF room.state /= "open" THEN "409 Room is not open"
    ELSE ""

\* JoinRoomHandler up to its read of the room and the checks on it
JoinRead(c, u, code, err) ==
    /\ CanStart(c)
    /\ LET call == [IdleCall EXCEPT !.op = "join", !.user = u, !.room = code]
           room == GetRoomByCode(rooms, code)
           res  == JoinCheck(err, room)
       IN calls' = [calls EXCEPT ![c] =
              IF res /= "" THEN Finish(call, res)
              ELSE [call EXCEPT !.pc = "write", !.snap = room]]
    /\ UNCHANGED <<rooms, results>>

\* a handler that calls the option append where the participant append belongs
JoinAppend_OptionAppend(c, err) ==
    /\ calls[c].op = "join" /\ calls[c].pc = "write"
    /\ LET call == calls[c]
           out  == IF err THEN [rooms |-> rooms, success |-> FALSE]
                   ELSE AddOptionToRoom(rooms, call.room, call.user)
           res  == JoinResponse(err, out.success)
       IN /\ rooms' = out.rooms
          /\ calls' = [calls EXCEPT ![c] =
               Finish([call EXCEPT !.committed = out.success,
                                   !.resp = IF res = "200" THEN <<call.snap.id>> ELSE <<>>],
                      res)]
    /\ UNCHANGED results

\* JoinRoomHandler from database.AddParticipantToRoom to its response
JoinAppend(c, err) ==
    /\ calls[c].op = "join" /\ calls[c].pc = "write"
    /\ LET call == calls[c]
           out  == IF err THEN [rooms |-> rooms, success |-> FALSE]
                   ELSE AddParticipantToRoom(rooms, call.room, call.user)
           res  == JoinResponse(err, out.success)
       IN /\ rooms' = out.rooms
          /\ calls' = [calls EXCEPT ![c] =
               Finish([call EXCEPT !.committed = out.success,
                                   !.resp = IF res = "200" THEN <<call.snap.id>> ELSE <<>>],
                      res)]
    /\ UNCHANGED results

\* ---------------------------------------------- AddOptionToRoomHandler
\* a handler that takes a refused append for a success
AddOptionResponse_IgnoresSuccess(err, success) ==
    IF err THEN "500 Database error" ELSE "201"

\* the response after database.AddOptionToRoom
AddOptionResponse(err, success) ==
    IF err THEN "500 Database error"
    ELSE IF success THEN "201"
    ELSE "500 unknown server error"

\* a handler without the membership check
AddOptionCheck_NoMembership(err, room, username, option) ==
    IF err THEN "500 Database error"
    ELSE IF room = NoRoom THEN "404"
    ELSE IF room.state /= "open" THEN "409 Room is not open"
    ELSE IF contains(room.options, option) THEN "409 Option already exists"
    ELSE ""

\* the checks on the room read, "" when the handler goes on
AddOptionCheck(err, room, username, option) ==
    IF err THEN "500 Database error"
    ELSE IF room = NoRoom THEN "404"
    ELSE IF room.state /= "open" THEN "409 Room is not open"
    ELSE IF ~contains(room.participants, username) THEN "403"
    ELSE IF contains(room.options, option) THEN "409 Option already exists"
    ELSE ""

\* the option sequence of the success response
AddOptionBody(room, option) == Append(room.options, option)

\* AddOptionToRoomHandler up to its read of the room and the checks on it;
\* an empty option is refused before any read
AddOptionRead(c, u, id, option, err) ==
    /\ CanStart(c)
    /\ LET call == [IdleCall EXCEPT !.op = "addoption", !.user = u, !.room = id,
                                    !.option = option]
           room == GetRoomById(rooms, id)
           res  == IF option = "" THEN "400 Missing option"
                   ELSE AddOptionCheck(err, room, u, option)
       IN calls' = [calls EXCEPT ![c] =
              IF res /= "" THEN Finish(call, res)
              ELSE [call EXCEPT !.pc = "write", !.snap = room]]
    /\ UNCHANGED <<rooms, results>>

\* AddOptionToRoomHandler from database.AddOptionToRoom to its response
AddOptionAppend(c, err) ==
    /\ calls[c].op = "addoption" /\ calls[c].pc = "write"
    /\ LET call == calls[c]
           out  == IF err THEN [rooms |-> rooms, success |-> FALSE]
                   ELSE AddOptionToRoom(rooms, call.room, call.option)
           res  == AddOptionResponse(err, out.success)
       IN /\ rooms' = out.rooms
          /\ calls' = [calls EXCEPT ![c] =
               Finish([call EXCEPT !.committed = out.success,
                                   !.resp = IF res = "201"
                                            THEN AddOptionBody(call.snap, call.option)
                                            ELSE <<>>],
                      res)]
    /\ UNCHANGED results

\* ---------------------------------------------------- CloseRoomHandler
\* a handler with the ownership test inverted
IsOwner_Inverted(room, username) == room.owner /= username

\* a handler without the ownership check
IsOwner_Anyone(room, username) == TRUE

\* isOwner := room.Owner == user.Username
IsOwner(room, username) == room.owner = username

\* a handler that refuses to close while a participant has not voted
CloseCheck_RequiresVotes(err, room, username) ==
    IF err THEN "500 Database error"
    ELSE IF room = NoRoom THEN "404"
    ELSE IF room.owner /= username THEN "403"
    ELSE IF room.state /= "open" THEN "409 Room is not open"
    ELSE IF \E i \in 1..Len(room.participants) :
               room.participants[i] \notin DOMAIN room.votes
         THEN "409 Votes are missing"
    ELSE ""

\* a handler that looks at the state before the owner
CloseCheck_StateFirst(err, room, username) ==
    IF err THEN "500 Database error"
    ELSE IF room = NoRoom THEN "404"
    ELSE IF room.state /= "open" THEN "409 Room is not open"
    ELSE IF room.owner /= username THEN "403"
    ELSE ""

\* the checks on the room read, "" when the handler goes on
CloseCheck(err, room, username) ==
    IF err THEN "500 Database error"
    ELSE IF room = NoRoom THEN "404"
    ELSE IF ~IsOwner(room, username) THEN "403"
    ELSE IF room.state /= "open" THEN "409 Room is not open"
    ELSE ""

\* a handler that goes on to the Result whatever the store returned
CloseCommitResponse_Unchecked(err, success) == ""

\* the response after database.CloseRoom, "" when the handler goes on
CloseCommitResponse(err, success) ==
    IF err THEN "500 Database error"
    ELSE IF ~success THEN "500 Failed to close room"
    ELSE ""

\* the ranking the handler hands to database.CreateResult
SortedOptions(room) == <<>>

\* CloseRoomHandler up to its read of the room and the checks on it
CloseRead(c, u, id, err) ==
    /\ CanStart(c)
    /\ LET call == [IdleCall EXCEPT !.op = "close", !.user = u, !.room = id]
           room == GetRoomById(rooms, id)
           res  == CloseCheck(err, room, u)
       IN calls' = [calls EXCEPT ![c] =
              IF res /= "" THEN Finish(call, res)
              ELSE [call EXCEPT !.pc = "write", !.snap = room]]
    /\ UNCHANGED <<rooms, results>>

\* CloseRoomHandler at database.CloseRoom
CloseCommit(c, err) ==
    /\ calls[c].op = "close" /\ calls[c].pc = "write"
    /\ LET call == calls[c]
           out  == IF err THEN [rooms |-> rooms, success |-> FALSE]
                   ELSE CloseRoom(rooms, call.room)
           res  == CloseCommitResponse(err, out.success)
       IN /\ rooms' = out.rooms
          /\ calls' = [calls EXCEPT ![c] =
               IF res /= "" THEN Finish(call, res)
               ELSE [call EXCEPT !.pc = "result", !.committed = TRUE]]
    /\ UNCHANGED results

\* CloseRoomHandler from database.CreateResult to its response
CloseResult(c, err) ==
    /\ calls[c].op = "close" /\ calls[c].pc = "result"
    /\ LET call == calls[c] IN
       IF err
       THEN /\ calls' = [calls EXCEPT ![c] = Finish(call, "500 Database error")]
            /\ UNCHANGED results
       ELSE /\ results' = CreateResult(results, call.user, SortedOptions(call.snap),
                                       call.room)
            /\ calls' = [calls EXCEPT ![c] =
                 Finish([call EXCEPT !.resp = <<Len(results) + 1>>], "200")]
    /\ UNCHANGED rooms

\* ------------------------------------------------- vote ledger (store)
\* a ledger that takes submissions after lock-in
SubmitVoteCheck_NoLock(err, room, username, scores) ==
    IF err THEN "StoreUnavailable"
    ELSE IF room = NoRoom THEN "NotFound"
    ELSE IF room.state /= "open" THEN "RoomClosed"
    ELSE IF ~contains(room.participants, username) THEN "Forbidden"
    ELSE IF ~(DOMAIN scores \subseteq Range(room.options)) THEN "InvalidInput"
    ELSE ""

\* SubmitVote: a full overwrite of the caller's submission; the failure kinds
\* in the order open room, participant, not locked in, known options
SubmitVoteCheck(err, room, username, scores) ==
    IF err THEN "StoreUnavailable"
    ELSE IF room = NoRoom THEN "NotFound"
    ELSE IF room.state /= "open" THEN "RoomClosed"
    ELSE IF ~contains(room.participants, username) THEN "Forbidden"
    ELSE IF username \in room.lockedIn THEN "Locked"
    ELSE IF ~(DOMAIN scores \subseteq Range(room.options)) THEN "InvalidInput"
    ELSE ""

UpsertVote(votes, username, scores) ==
    [x \in DOMAIN votes \cup {username} |-> IF x = username THEN scores ELSE votes[x]]

SubmitVote(c, u, id, scores, err) ==
    /\ CanStart(c)
    /\ LET call == [IdleCall EXCEPT !.op = "submitvote", !.user = u, !.room = id]
           res  == SubmitVoteCheck(err, GetRoomById(rooms, id), u, scores)
       IN IF res /= ""
          THEN /\ calls' = [calls EXCEPT ![c] = Finish(call, res)]
               /\ UNCHANGED rooms
          ELSE /\ rooms' = [rooms EXCEPT ![id].votes = UpsertVote(@, u, scores)]
               /\ calls' = [calls EXCEPT ![c] =
                    Finish([call EXCEPT !.committed = TRUE], "ok")]
    /\ UNCHANGED results

\* LockIn: freezes the caller's submission, which must exist
LockInCheck(err, room, username) ==
    IF err THEN "StoreUnavailable"
    ELSE IF room = NoRoom THEN "NotFound"
    ELSE IF room.state /= "open" THEN "RoomClosed"
    ELSE IF ~contains(room.participants, username) THEN "Forbidden"
    ELSE IF username \notin DOMAIN room.votes THEN "InvalidInput"
    ELSE ""

LockIn(c, u, id, err) ==
    /\ CanStart(c)
    /\ LET call == [IdleCall EXCEPT !.op = "lockin", !.user = u, !.room = id]
           res  == LockInCheck(err, GetRoomById(rooms, id), u)
       IN IF res /= ""
          THEN /\ calls' = [calls EXCEPT ![c] = Finish(call, res)]
               /\ UNCHANGED rooms
          ELSE /\ rooms' = [rooms EXCEPT ![id].lockedIn = @ \cup {u}]
               /\ calls' = [calls EXCEPT ![c] =
                    Finish([call EXCEPT !.committed = TRUE], "ok")]
    /\ UNCHANGED results

\* ----------------------------------------------------- VotePageHandler
\* a page built from the keys of the submission, not from the room's options
VoteOptions_SubmittedOnly(room, uservotes, disabled) ==
    LET kept == SelectSeq(room.options, LAMBDA opt : opt \in DOMAIN uservotes) IN
    [i \in 1..Len(kept) |->
        [Name |-> kept[i], Value |-> uservotes[kept[i]], Disabled |-> disabled]]

\* data.Options: one VoteOption per option of the room, in order; a key the
\* submission lacks reads as 0
VoteOptions(room, uservotes, disabled) ==
    [i \in 1..Len(room.options) |->
        [Name |-> room.options[i],
         Value |-> IF room.options[i] \in DOMAIN uservotes
                   THEN uservotes[room.options[i]] ELSE 0,
         Disabled |-> disabled]]

\* the checks of the page, "" when it is rendered; id 0 is a request
\* without the room parameter
VotePageCheck(err, id, room, username) ==
    IF id = 0 THEN "400 Must include room query parameter"
    ELSE IF err THEN "400 Room does not exist"
    ELSE IF room = NoRoom THEN "panic: nil pointer dereference"
    ELSE IF ~contains(room.participants, username)
         THEN "400 You must join this room first before voting"
    ELSE IF username \notin DOMAIN room.votes THEN "500 Internal Server Error"
    ELSE ""

\* VotePageHandler: one read of the room and the page
VotePageHandler(c, u, id, err) ==
    /\ CanStart(c)
    /\ LET call == [IdleCall EXCEPT !.op = "votepage", !.user = u, !.room = id]
           room == GetRoomById(rooms, id)
           res  == VotePageCheck(err, id, room, u)
       IN calls' = [calls EXCEPT ![c] =
              IF res /= "" THEN Finish(call, res)
              ELSE Finish([call EXCEPT !.resp =
                              VoteOptions(room, room.votes[u], u \in room.lockedIn)],
                          "200")]
    /\ UNCHANGED <<rooms, results>>

\* ---------------------------------------------------------------- Next
\* one step of a handler that changes the store; err: the store call of
\* the step fails
Handlers(err) ==
    \E c \in CallIds :
        \/ \E u \in Owners : CreateRoomHandler(c, u, err)
        \/ \E u \in Owners : NewPageHandler(c, u, err)
        \/ \E u \in Users, code \in RoomIds : JoinRead(c, u, code, err)
        \/ JoinAppend(c, err)
        \/ \E u \in Users, id \in RoomIds, option \in OptionNames \cup {""} :
              AddOptionRead(c, u, id, option, err)
        \/ AddOptionAppend(c, err)
        \/ \E u \in Users, id \in RoomIds : CloseRead(c, u, id, err)
        \/ CloseCommit(c, err)
        \/ CloseResult(c, err)

Next == \E err \in BOOLEAN : Handlers(err)

Spec == Init /\ [][Next]_vars

\* ------------------------------------------------------ GetRoomHandler
\* a handler without the state check
GetRoomCheck_NoStateCheck(err, room) ==
    IF err THEN "500 Database error"
    ELSE IF room = NoRoom THEN "404"
    ELSE ""

\* the checks on the room read, "" when the handler goes on
GetRoomCheck(err, room) ==
    IF err THEN "500 Database error"
    ELSE IF room = NoRoom THEN "404"
    ELSE IF room.state /= "open" THEN "409 Room is not open"
    ELSE ""

\* the RoomResponse body
RoomResponse(room, username) ==
    [id |-> room.id, code |-> room.code, owner |-> room.owner,
     participants |-> room.participants, options |-> room.options,
     votes |-> room.votes, state |-> room.state,
     isOwner |-> (room.owner = username)]

\* GetRoomHandler: one read of the room and the response
GetRoomHandler(c, u, id, err) ==
    /\ CanStart(c)
    /\ LET call == [IdleCall EXCEPT !.op = "getroom", !.user = u, !.room = id]
           room == GetRoomById(rooms, id)
           res  == GetRoomCheck(err, room)
       IN calls' = [calls EXCEPT ![c] =
              IF res /= "" THEN Finish(call, res)
              ELSE Finish([call EXCEPT !.resp = <<RoomResponse(room, u)>>], "200")]
    /\ UNCHANGED <<rooms, results>>

\* GetRoomHandler among the handlers that change the store; the store
\* fails for GetRoomHandler only
NextGetRoom ==
    \/ Handlers(FALSE)
    \/ \E c \in CallIds, err \in BOOLEAN, u \in Users, id \in RoomIds :
          GetRoomHandler(c, u, id, err)

SpecGetRoom == Init /\ [][NextGetRoom]_vars

\* the handlers together with the vote ledger
NextLedger ==
    \/ Next
    \/ \E c \in CallIds, err \in BOOLEAN, u \in Users, id \in RoomIds,
          scores \in ScoreMaps : SubmitVote(c, u, id, scores, err)
    \/ \E c \in CallIds, err \in BOOLEAN, u \in Users, id \in RoomIds :
          LockIn(c, u, id, err)

SpecLedger == Init /\ [][NextLedger]_vars

\* ------------------------------------------------ aggregation (§4.4)
RECURSIVE SumScores(_, _, _)
\* the sum over the submissions of the users in us of their score for option
SumScores(votes, us, option) ==
    IF us = {} THEN 0
    ELSE LET u == CHOOSE x \in us : TRUE IN
         (IF option \in DOMAIN votes[u] THEN votes[u][option] ELSE 0)
         + SumScores(votes, us \ {u}, option)

AggregateScore(room, option) == SumScores(room.votes, DOMAIN room.votes, option)

\* the positions of options, best first: higher aggregate score, then
\* earlier insertion
Before(room, i, j) ==
    LET si == AggregateScore(room, room.options[i])
        sj == AggregateScore(room, room.options[j])
    IN si > sj \/ (si = sj /\ i < j)

\* the ranking of §4.4: every option with its aggregate score, each at the
\* place given by the number of options that come before it
Ranking(room) ==
    LET n == Len(room.options)
        rank(i) == 1 + Cardinality({j \in 1..n : Before(room, j, i)})
    IN [k \in 1..n |->
          LET i == CHOOSE i \in 1..n : rank(i) = k IN
          [option |-> room.options[i],
           score |-> AggregateScore(room, room.options[i])]]

\* -------------------------------------------------------------- claims
Rooms == 1..Len(rooms)
Done(c) == calls[c].pc = "done"
NoDuplicates(s) == \A i, j \in 1..Len(s) : s[i] = s[j] => i = j
ResultsOf(r) == {i \in 1..Len(results) : results[i].room = r}
OwnerCloses(r) ==
    {c \in CallIds : calls[c].op = "close" /\ calls[c].room = r
                     /\ calls[c].user = rooms[r].owner}

\* C1: of the owner's Close calls on one room, once all have returned and
\* none met a store error, exactly one returned success, every other one
\* returned 409 Conflict (room is not open), and the room is closed.
C1_ExactlyOneCloseOthersConflict ==
    \A r \in Rooms :
        LET S == OwnerCloses(r) IN
        (/\ S /= {}
         /\ \A c \in S : Done(c) /\ calls[c].res \notin {"404", "500 Database error"})
        => /\ Cardinality({c \in S : calls[c].res = "200"}) = 1
           /\ \A c \in S : calls[c].res \in {"200", "409 Room is not open"}
           /\ rooms[r].state = "closed"

\* C2: in every state a room has a Result if and only if it is closed, and
\* no room has more than one Result.
C2_ResultIffClosed ==
    \A r \in Rooms :
        /\ (ResultsOf(r) /= {}) <=> (rooms[r].state = "closed")
        /\ Cardinality(ResultsOf(r)) <= 1

\* C3: per room and option string at most one AddOption call returned
\* success (201), and no room's options hold a duplicate.
C3_AddOptionOncePerOption ==
    \A r \in Rooms :
        /\ NoDuplicates(rooms[r].options)
        /\ \A o \in OptionNames :
              Cardinality({c \in CallIds : /\ calls[c].op = "addoption"
                                           /\ calls[c].room = r
                                           /\ calls[c].option = o
                                           /\ calls[c].res = "201"}) <= 1

\* two AddOption calls with the same option raced past the handler's check:
\* one returned 201, the other was refused by the store
C3_Witness ==
    \E c, d \in CallIds :
        /\ c /= d
        /\ calls[c].op = "addoption" /\ calls[d].op = "addoption"
        /\ calls[c].room = calls[d].room /\ calls[c].option = calls[d].option
        /\ calls[c].res = "201" /\ calls[d].res = "500 unknown server error"

\* C4: every identity whose Join returned success (200) is in the room's
\* participants exactly once, and no room's participants hold a duplicate.
C4_JoinedExactlyOnce ==
    /\ \A r \in Rooms : NoDuplicates(rooms[r].participants)
    /\ \A c \in CallIds :
          (calls[c].op = "join" /\ calls[c].res = "200")
          => Cardinality({i \in 1..Len(rooms[calls[c].room].participants) :
                 rooms[calls[c].room].participants[i] = calls[c].user}) = 1

\* two joins by distinct identities overlapped (the one that read first
\* appended last) and both are in, beside a repeated join by the owner
C4_Witness ==
    \E c, d, e \in CallIds :
        /\ c < d
        /\ calls[c].op = "join" /\ calls[d].op = "join" /\ calls[e].op = "create"
        /\ calls[c].room = calls[d].room
        /\ calls[c].res = "200" /\ calls[d].res = "200"
        /\ rooms[calls[c].room].participants
             = <<calls[e].user, calls[d].user, calls[c].user>>
        /\ Cardinality({calls[c].user, calls[d].user, calls[e].user}) = 3

\* C5: once a room is closed its participants and options never change.
C5_ClosedRoomImmutable ==
    [][\A r \in Rooms :
          rooms[r].state = "closed"
          => /\ rooms'[r].participants = rooms[r].participants
             /\ rooms'[r].options = rooms[r].options]_vars

\* C6: the ranking of every Result, when it is created, lists every option
\* of its room with its aggregate score, by descending score, ties by
\* insertion position.
C6_RankingIsAggregation ==
    [][Len(results') > Len(results)
       => results'[Len(results')].ranking
            = Ranking(rooms[results'[Len(results')].room])]_vars

\* C7: a Close by a non-owner never gets as far as the store's close: it
\* ends 403 (or 404 / 500 when the room could not be read) and changes
\* nothing; and every closed room was closed by a Close call of its owner.
C7_OnlyOwnerCloses ==
    /\ \A c \in CallIds :
          (/\ calls[c].op = "close"
           /\ calls[c].room \in Rooms
           /\ calls[c].user /= rooms[calls[c].room].owner)
          => /\ Done(c)
             /\ ~calls[c].committed
             /\ calls[c].res \in {"403", "404", "500 Database error"}
    /\ \A r \in Rooms :
          rooms[r].state = "closed"
          => \E c \in OwnerCloses(r) : calls[c].committed

\* a non-owner's Close was refused with 403 and the room is still open with
\* no Result
C7_Witness ==
    \E c \in CallIds :
        /\ calls[c].op = "close" /\ calls[c].res = "403"
        /\ calls[c].user /= rooms[calls[c].room].owner
        /\ rooms[calls[c].room].state = "open"
        /\ ResultsOf(calls[c].room) = {}

\* C8: a Close that returned a failure did not close the room.
C8_FailedCloseNoEffect ==
    \A c \in CallIds :
        (calls[c].op = "close" /\ Done(c) /\ calls[c].res /= "200")
        => ~calls[c].committed

\* C9: the option sequence of a successful AddOption response is the
\* room's stored option sequence right after that call's append.
C9_ResponseIsStoredOptions ==
    [][\A c \in CallIds :
          (/\ calls[c].op = "addoption" /\ calls[c].pc = "write"
           /\ calls'[c].res = "201")
          => calls'[c].resp = rooms'[calls[c].room].options]_vars

\* C10: a room is created open, its state is open or closed, no room
\* disappears, and a closed room stays closed.
C10_StateMonotonic ==
    [][/\ \A r \in 1..Len(rooms') :
             IF r \in Rooms
             THEN /\ rooms'[r].state \in {"open", "closed"}
                  /\ rooms[r].state = "closed" => rooms'[r].state = "closed"
             ELSE rooms'[r].state = "open"
       /\ Len(rooms') >= Len(rooms)]_vars

\* a room was closed and a later Join on it was refused: the room is still
\* closed
C10_Witness ==
    \E c \in CallIds :
        /\ calls[c].op = "join" /\ calls[c].res = "409 Room is not open"
        /\ rooms[calls[c].room].state = "closed"

\* C11: an AddOption with a non-empty option by an identity that is not a
\* participant of the open room it names has returned 403 (404 or 500 when
\* the room could not be read) and appended nothing.
C11_NonParticipantForbidden ==
    \A c \in CallIds :
        (/\ calls[c].op = "addoption" /\ calls[c].option /= ""
         /\ calls[c].room \in Rooms
         /\ rooms[calls[c].room].state = "open"
         /\ ~contains(rooms[calls[c].room].participants, calls[c].user))
        => /\ Done(c)
           /\ ~calls[c].committed
           /\ calls[c].res \in {"403", "404", "500 Database error"}

\* a non-participant's AddOption was refused with 403 and the open room
\* holds no option
C11_Witness ==
    \E c \in CallIds :
        /\ calls[c].op = "addoption" /\ calls[c].res = "403"
        /\ calls[c].option \in OptionNames
        /\ rooms[calls[c].room].state = "open"
        /\ ~contains(rooms[calls[c].room].participants, calls[c].user)
        /\ rooms[calls[c].room].options = <<>>

\* C12: every Result belongs to a room that is closed, and every Close
\* that returned success names a Result created by it for its room.
C12_ResultAfterCloseBeforeReturn ==
    /\ \A i \in 1..Len(results) : rooms[results[i].room].state = "closed"
    /\ \A c \in CallIds :
          (calls[c].op = "close" /\ calls[c].res = "200")
          => /\ calls[c].resp[1] \in ResultsOf(calls[c].room)
             /\ calls[c].committed

\* a Close has returned success: its room is closed and holds the Result
\* that the response names
C12_Witness ==
    \E c \in CallIds :
        /\ calls[c].op = "close" /\ calls[c].res = "200"
        /\ rooms[calls[c].room].state = "closed"
        /\ ResultsOf(calls[c].room) = {calls[c].resp[1]}

\* C13: the createdBy of every Result is the owner of the room whose Close
\* created it.
C13_CreatedByOwner ==
    \A i \in 1..Len(results) :
        results[i].createdBy = rooms[results[i].room].owner

\* a Result exists although a non-owner also called Close on its room
C13_Witness ==
    \E i \in 1..Len(results), c \in CallIds :
        /\ calls[c].op = "close" /\ calls[c].room = results[i].room
        /\ calls[c].user /= rooms[results[i].room].owner
        /\ Done(c)

\* C17: a Close by a non-owner that read the room ends 403 whatever the
\* room's state, and a 409 (room is not open) only ever goes to the owner.
C17_OwnerCheckedBeforeState ==
    \A c \in CallIds :
        (calls[c].op = "close" /\ Done(c) /\ calls[c].room \in Rooms)
        => /\ (/\ calls[c].user /= rooms[calls[c].room].owner
               /\ calls[c].res \notin {"404", "500 Database error"})
              => calls[c].res = "403"
           /\ calls[c].res = "409 Room is not open"
              => calls[c].user = rooms[calls[c].room].owner

\* a non-owner's Close on a room that was already closed ended 403
C17_Witness ==
    \E c \in CallIds :
        /\ calls[c].op = "close" /\ calls[c].res = "403"
        /\ rooms[calls[c].room].state = "closed"
        /\ \E d \in CallIds : d < c /\ calls[d].op = "close" /\ calls[d].res = "200"
                               /\ calls[d].room = calls[c].room

\* the fields of room r that a step leaves alone, given those it may change
SameBut(r, fields) ==
    \A f \in {"id", "code", "owner", "participants", "options", "votes",
              "lockedIn", "state"} \ fields : rooms'[r][f] = rooms[r][f]

\* C19: a step of Join changes at most the participants of its room, a
\* step of AddOption at most the options of its room, a step of Close at
\* most the state of its room and the Results; no step of them changes
\* another room, adds or removes a room, or changes owner, code, votes or
\* lockedIn.
C19_HandlersChangeOwnField ==
    [][\A c \in CallIds :
          (calls'[c] /= calls[c] /\ calls'[c].op \in {"join", "addoption", "close"})
          => /\ Len(rooms') = Len(rooms)
             /\ \A r \in Rooms :
                   IF r /= calls'[c].room THEN rooms'[r] = rooms[r]
                   ELSE SameBut(r, CASE calls'[c].op = "join" -> {"participants"}
                                     [] calls'[c].op = "addoption" -> {"options"}
                                     [] OTHER -> {"state"})
             /\ calls'[c].op /= "close" => results' = results]_vars

\* two rooms exist; a Join, an AddOption or a Close has changed the second
\* and the first is as it was created
C19_Witness ==
    /\ Len(rooms) = 2
    /\ rooms[1] = NewRoom(1, rooms[1].owner)
    /\ rooms[2] /= NewRoom(2, rooms[2].owner)
    /\ \E c \in CallIds : /\ calls[c].room = 2
                          /\ calls[c].op \in {"join", "addoption", "close"}
                          /\ calls[c].committed

\* C18: a GetRoom changes no room and no Result; a GetRoom that returns
\* 200 read the room as open and returns that room's fields; a GetRoom on
\* a closed room returns 409 (500 when the read failed).
C18_GetRoomReadOnlyOpenOnly ==
    [][\A c \in CallIds :
          (calls[c].op = "none" /\ calls'[c].op = "getroom")
          => LET room == GetRoomById(rooms, calls'[c].room) IN
             /\ rooms' = rooms /\ results' = results
             /\ calls'[c].res = "200"
                => /\ room /= NoRoom /\ room.state = "open"
                   /\ calls'[c].resp = <<RoomResponse(room, calls'[c].user)>>
             /\ (room /= NoRoom /\ room.state = "closed")
                => calls'[c].res \in {"409 Room is not open", "500 Database error"}]_vars

\* a GetRoom on a closed room returned 409
C18_Witness ==
    \E c \in CallIds :
        /\ calls[c].op = "getroom" /\ calls[c].res = "409 Room is not open"
        /\ rooms[calls[c].room].state = "closed"

\* ----------------------------------------------------- an open room
\* the identities of the requests on the open room: its owner and one other
Voters == {"alice", "bob"}

\* a room its owner created and gave the option "a"
InitOpenRoom ==
    /\ \E u \in Voters : rooms = <<[NewRoom(1, u) EXCEPT !.options = <<"a">>]>>
    /\ results = <<>>
    /\ calls = [c \in CallIds |-> IdleCall]

\* the vote ledger, Join and Close on the open room
NextVotes ==
    \/ \E c \in CallIds, err \in BOOLEAN, u \in Voters, id \in RoomIds,
          scores \in ScoreMaps : SubmitVote(c, u, id, scores, err)
    \/ \E c \in CallIds, err \in BOOLEAN, u \in Voters, id \in RoomIds :
          LockIn(c, u, id, err)
    \/ \E c \in CallIds, err \in BOOLEAN, u \in Voters, id \in RoomIds :
          JoinRead(c, u, id, err)
    \/ \E c \in CallIds, err \in BOOLEAN : JoinAppend(c, err)
    \/ \E c \in CallIds, err \in BOOLEAN, u \in Voters, id \in RoomIds :
          CloseRead(c, u, id, err)
    \/ \E c \in CallIds, err \in BOOLEAN : CloseCommit(c, err)
    \/ \E c \in CallIds, err \in BOOLEAN : CloseResult(c, err)

SpecVotes == InitOpenRoom /\ [][NextVotes]_vars

\* the vote ledger, AddOption and the vote page on the open room
NextVotePage ==
    \/ \E c \in CallIds, err \in BOOLEAN, u \in Voters, id \in RoomIds,
          scores \in ScoreMaps : SubmitVote(c, u, id, scores, err)
    \/ \E c \in CallIds, err \in BOOLEAN, u \in Voters, id \in RoomIds :
          LockIn(c, u, id, err)
    \/ \E c \in CallIds, err \in BOOLEAN, u \in Voters, id \in RoomIds,
          option \in OptionNames : AddOptionRead(c, u, id, option, err)
    \/ \E c \in CallIds, err \in BOOLEAN : AddOptionAppend(c, err)
    \/ \E c \in CallIds, err \in BOOLEAN, u \in Voters, id \in RoomIds \cup {0} :
          VotePageHandler(c, u, id, err)

SpecVotePage == InitOpenRoom /\ [][NextVotePage]_vars

\* C14: a Close by the owner that is the only Close on its room and met
\* no store error has returned 200 once it is done, whatever the votes and
\* lockedIn of the room; and until it is done its next store call can run.
C14_CloseNotBlockedByVotes ==
    \A c \in CallIds :
        (/\ calls[c].op = "close"
         /\ calls[c].user = rooms[calls[c].room].owner
         /\ \A d \in CallIds \ {c} : calls[d].op /= "close")
        => /\ (Done(c) /\ calls[c].res /= "500 Database error")
              => calls[c].res = "200"
           /\ calls[c].pc = "write" => ENABLED CloseCommit(c, FALSE)
           /\ calls[c].pc = "result" => ENABLED CloseResult(c, FALSE)

\* the owner's only Close returned 200 on a room where one participant
\* had voted and another never did
C14_Witness ==
    \E c \in CallIds :
        /\ calls[c].op = "close" /\ calls[c].res = "200"
        /\ \A d \in CallIds \ {c} : calls[d].op /= "close"
        /\ LET room == rooms[calls[c].room] IN
           /\ Len(room.participants) = 2
           /\ Cardinality(DOMAIN room.votes) = 1

\* C15: a SubmitVote by an identity that is locked in does not succeed and
\* changes no room: it fails with Locked, or with RoomClosed when the room
\* has been closed, or with StoreUnavailable when the store failed.
C15_LockedInSubmitFails ==
    [][\A c \in CallIds :
          (/\ calls[c].op = "none" /\ calls'[c].op = "submitvote"
           /\ calls'[c].user \in rooms[calls'[c].room].lockedIn)
          => /\ rooms' = rooms
             /\ calls'[c].res \in {"Locked", "RoomClosed", "StoreUnavailable"}
             /\ (calls'[c].res = "Locked")
                  <=> (rooms[calls'[c].room].state = "open"
                       /\ calls'[c].res /= "StoreUnavailable")]_vars

\* a LockIn succeeded, a later SubmitVote of the same identity was refused
\* as Locked, and the submission of before the LockIn is still stored
C15_Witness ==
    \E c, d, e \in CallIds :
        /\ c < d /\ d < e
        /\ calls[c].op = "submitvote" /\ calls[c].res = "ok"
        /\ calls[d].op = "lockin" /\ calls[d].res = "ok"
        /\ calls[e].op = "submitvote" /\ calls[e].res = "Locked"
        /\ calls[c].user = calls[d].user /\ calls[d].user = calls[e].user
        /\ rooms[1].votes[calls[e].user] = [o \in {"a"} |-> 1]

\* C16: the vote page of a participant with a submission lists one entry
\* per option of the room, in the order of the options, whose value is the
\* stored score of that option, 0 where the submission has no such key.
C16_VotePageListsEveryOption ==
    [][\A c \in CallIds :
          (/\ calls[c].op = "none" /\ calls'[c].op = "votepage"
           /\ calls'[c].res = "200")
          => LET room == rooms[calls'[c].room]
                 sub  == room.votes[calls'[c].user]
                 page == calls'[c].resp
             IN /\ Len(page) = Len(room.options)
                /\ \A i \in 1..Len(page) :
                      /\ page[i].Name = room.options[i]
                      /\ page[i].Value = IF page[i].Name \in DOMAIN sub
                                         THEN sub[page[i].Name] ELSE 0]_vars

\* a page shows the stored score 1 of "a" and 0 for "b", added to the room
\* after the submission
C16_Witness ==
    \E c \in CallIds :
        /\ calls[c].op = "votepage" /\ calls[c].res = "200"
        /\ Len(calls[c].resp) = 2
        /\ calls[c].resp[1].Name = "a" /\ calls[c].resp[1].Value = 1
        /\ calls[c].resp[2].Name = "b" /\ calls[c].resp[2].Value = 0
        /\ DOMAIN rooms[1].votes[calls[c].user] = {"a"}
====
